---- MODULE Spec2Model ----
(***************************************************************************)
(* Model of service-t/jni/com_android_server_net_NetworkStatsService.cpp:  *)
(* the four native statistics queries, the two /proc/net/xt_qtaguid text   *)
(* parsers they fall back to, and the counter selector.                    *)
(*                                                                         *)
(* Text is modelled at the character level (a file or a buffer is a        *)
(* sequence of one-character strings), so that fgets' chunking and sscanf's *)
(* tokenizing are computed rather than assumed.  A uint64_t is modelled as *)
(* four 16-bit limbs, least significant first, so that additions wrap      *)
(* modulo 2^64 exactly as the code's do.                                   *)
(***************************************************************************)
EXTENDS Integers, Sequences, FiniteSets, TLC

VARIABLES
    ifaceTable,  \* content of /proc/net/xt_qtaguid/iface_stat_fmt
    uidTable,    \* content of /proc/net/xt_qtaguid/stats
    pc,          \* "idle": no native call in progress; "returned": one has returned
    call,        \* the native call: the function and its arguments
    bpf,         \* what the BPF probe of the call answered, when it was made
    parser,      \* whether the call ran a /proc parser, and what that returned
    stats,       \* the call's local StatsValue as it is when the call returns
    ret,         \* the value the call returned
    events       \* the library calls the native call made, in order

vars == <<ifaceTable, uidTable, pc, call, bpf, parser, stats, ret, events>>

-----------------------------------------------------------------------------
(* uint64_t / uint32_t arithmetic on 16-bit limbs *)

LimbBase == 2 ^ 16
LimbMax == LimbBase - 1

Zero64 == <<0, 0, 0, 0>>

\* static const uint64_t UNKNOWN = -1;
UNKNOWN == <<LimbMax, LimbMax, LimbMax, LimbMax>>

\* a + b on uint64_t: the carry out of the top limb is lost
Add64(a, b) ==
    LET s1 == a[1] + b[1]
        s2 == a[2] + b[2] + (s1 \div LimbBase)
        s3 == a[3] + b[3] + (s2 \div LimbBase)
        s4 == a[4] + b[4] + (s3 \div LimbBase)
    IN  <<s1 % LimbBase, s2 % LimbBase, s3 % LimbBase, s4 % LimbBase>>

\* acc * radix + digit on uintmax_t, as strtoumax accumulates a number;
\* ovf is set once the value no longer fits (strtoumax then yields UINTMAX_MAX)
MulAdd64(acc, radix, digit) ==
    LET s1 == acc.v[1] * radix + digit
        s2 == acc.v[2] * radix + (s1 \div LimbBase)
        s3 == acc.v[3] * radix + (s2 \div LimbBase)
        s4 == acc.v[4] * radix + (s3 \div LimbBase)
    IN  [v |-> <<s1 % LimbBase, s2 % LimbBase, s3 % LimbBase, s4 % LimbBase>>,
         ovf |-> acc.ovf \/ s4 >= LimbBase]

\* -v on uintmax_t (strtoumax applies a leading '-' this way)
Neg64(v) ==
    Add64(<<LimbMax - v[1], LimbMax - v[2], LimbMax - v[3], LimbMax - v[4]>>,
          <<1, 0, 0, 0>>)

\* (uint32_t) of a uint64_t: the low 32 bits
Trunc32(v) == <<v[1], v[2], 0, 0>>

\* uint32_t from a jint (two's complement), widened to the limb form
JintToU32(n) ==
    IF n >= 0
    THEN <<n % LimbBase, n \div LimbBase, 0, 0>>
    ELSE LET m == (n + 2147483647) + 1
         IN  <<m % LimbBase, (m \div LimbBase) + (LimbBase \div 2), 0, 0>>

-----------------------------------------------------------------------------
(* Characters *)

\* isspace() in the C locale
IsSpace(c) == c \in {" ", "\t", "\n", "\r", "\f"}

HexDigits ==
    <<"0", "1", "2", "3", "4", "5", "6", "7", "8", "9", "a", "b", "c", "d", "e", "f">>
HexUpper == <<"A", "B", "C", "D", "E", "F">>

\* the value of c as a digit in the given radix, or -1 when it is none
DigitVal(c, radix) ==
    LET lo == {k \in 1..16 : HexDigits[k] = c}
        up == {k \in 1..6 : HexUpper[k] = c}
        v  == IF lo # {} THEN (CHOOSE k \in lo : TRUE) - 1
              ELSE IF up # {} THEN (CHOOSE k \in up : TRUE) + 9
              ELSE -1
    IN  IF v < radix THEN v ELSE -1

\* the first index j >= i of buf holding no white space (Len(buf) + 1 if none)
SkipSpace(buf, i) ==
    CHOOSE j \in i..(Len(buf) + 1) :
        /\ (j = Len(buf) + 1 \/ ~IsSpace(buf[j]))
        /\ \A k \in i..(j - 1) : IsSpace(buf[k])

\* the first index j >= i of buf holding white space (Len(buf) + 1 if none)
SkipToken(buf, i) ==
    CHOOSE j \in i..(Len(buf) + 1) :
        /\ (j = Len(buf) + 1 \/ IsSpace(buf[j]))
        /\ \A k \in i..(j - 1) : ~IsSpace(buf[k])

\* the first index j >= i of buf holding no digit of the radix
SkipDigits(buf, i, radix) ==
    CHOOSE j \in i..(Len(buf) + 1) :
        /\ (j = Len(buf) + 1 \/ DigitVal(buf[j], radix) < 0)
        /\ \A k \in i..(j - 1) : DigitVal(buf[k], radix) >= 0

-----------------------------------------------------------------------------
(* fgets(buffer, sizeof(buffer), fp) *)

\* char buffer[384];
BufferSize == 384

\* One fgets call on a stream positioned at pos (1-based) of file: the index of
\* the last character stored. At most BufferSize - 1 characters are stored,
\* and reading stops after a newline. The characters left over stay in the
\* stream for the next call.
fgetsEnd(file, pos) ==
    LET limit == IF pos + BufferSize - 2 < Len(file)
                 THEN pos + BufferSize - 2 ELSE Len(file)
        nl == {j \in pos..limit : file[j] = "\n"}
    IN  IF nl = {} THEN limit
        ELSE CHOOSE j \in nl : \A k \in nl : j <= k

\* while (fgets(buffer, sizeof(buffer), fp) != NULL): the successive buffers.
\* fgets returns NULL when no character is left.
RECURSIVE fgetsLoop(_, _)
fgetsLoop(file, pos) ==
    IF pos > Len(file) THEN <<>>
    ELSE LET e == fgetsEnd(file, pos)
         IN  <<SubSeq(file, pos, e)>> \o fgetsLoop(file, e + 1)

-----------------------------------------------------------------------------
(* sscanf(buffer, format, ...) *)

\* The directives of a format. "s": %<width>s. "int": %u, %llu or %llx, stored
\* through a pointer to an integer of the given number of bits, or not stored
\* at all (%*u). "ws": white space in the format. "lit": any other character.
DirS(w)          == [op |-> "s", width |-> w]
DirInt(r, b, st) == [op |-> "int", radix |-> r, bits |-> b, store |-> st]
DirWs            == [op |-> "ws"]
DirLit(c)        == [op |-> "lit", ch |-> c]

\* strtoumax on the digits buf[lo..hi], most significant first: acc is the
\* value of the digits before them. The loop over the digits is split in
\* halves, the first half before the second; digits after an overflow no
\* longer change the result.
RECURSIVE Digits64(_, _, _, _, _)
Digits64(buf, lo, hi, radix, acc) ==
    IF lo >= hi
    THEN IF lo > hi THEN acc ELSE MulAdd64(acc, radix, DigitVal(buf[lo], radix))
    ELSE LET first == Digits64(buf, lo, (lo + hi) \div 2, radix, acc)
         IN  IF first.ovf THEN first
             ELSE Digits64(buf, (lo + hi) \div 2 + 1, hi, radix, first)

\* what strtoumax returns for the accumulated digits: UINTMAX_MAX when they
\* do not fit, else the value, negated after a '-'
IntValue(acc, neg) ==
    IF acc.ovf THEN UNKNOWN
    ELSE IF neg THEN Neg64(acc.v) ELSE acc.v

\* where the digits of an integer start, from index d0 after the sign: for
\* radix 16, after a 0x that a hexadecimal digit follows
DigitsStart(buf, d0, radix) ==
    IF /\ radix = 16
       /\ d0 + 2 <= Len(buf)
       /\ buf[d0] = "0"
       /\ buf[d0 + 1] \in {"x", "X"}
       /\ DigitVal(buf[d0 + 2], 16) >= 0
    THEN d0 + 2 ELSE d0

\* the digits buf[d..e-1] converted; no digit at all is a matching failure
ScanDigits(buf, d, e, radix, neg) ==
    [ok   |-> e > d,
     next |-> e,
     val  |-> IntValue(Digits64(buf, d, e - 1, radix, [v |-> Zero64, ovf |-> FALSE]), neg)]

ScanIntFrom(buf, d, radix, neg) == ScanDigits(buf, d, SkipDigits(buf, d, radix), radix, neg)

\* An integer conversion at index i of buf (leading white space already
\* skipped): an optional sign, for radix 16 an optional 0x, then digits.
\* ok is FALSE on a matching failure; next is where the scan goes on.
ScanInt(buf, i, radix) ==
    IF i <= Len(buf) /\ buf[i] \in {"-", "+"}
    THEN ScanIntFrom(buf, DigitsStart(buf, i + 1, radix), radix, buf[i] = "-")
    ELSE ScanIntFrom(buf, DigitsStart(buf, i, radix), radix, FALSE)

\* The state of a scan: i is the index of the next character of the buffer,
\* out the values assigned so far, end why the scan ended ("": it has not;
\* "eof": the input ended; "mismatch": a matching failure).
ScanStart == [i |-> 1, out |-> <<>>, end |-> ""]
AtEof(s) == [s EXCEPT !.end = "eof"]
AtMismatch(s) == [s EXCEPT !.end = "mismatch"]

\* the value an integer conversion stores through its pointer
Stored(dir, val) == IF dir.bits = 32 THEN Trunc32(val) ELSE val

\* %<width>s with b the index after the white space skipped: the token from b
\* on, cut to width characters, is assigned
sscanfStr(buf, dir, s, b) ==
    IF b > Len(buf) THEN AtEof(s)
    ELSE IF SkipToken(buf, b) - b > dir.width
    THEN [s EXCEPT !.i = b + dir.width,
                   !.out = Append(s.out, SubSeq(buf, b, b + dir.width - 1))]
    ELSE [s EXCEPT !.i = SkipToken(buf, b),
                   !.out = Append(s.out, SubSeq(buf, b, SkipToken(buf, b) - 1))]

\* an integer conversion with b the index after the white space skipped and
\* r what ScanInt found there
sscanfInt(buf, dir, s, b, r) ==
    IF b > Len(buf) THEN AtEof(s)
    ELSE IF ~r.ok THEN AtMismatch(s)
    ELSE [s EXCEPT !.i = r.next,
                   !.out = IF dir.store THEN Append(s.out, Stored(dir, r.val)) ELSE s.out]

\* one directive of a format
sscanfStep(buf, dir, s) ==
    CASE dir.op = "ws" -> [s EXCEPT !.i = SkipSpace(buf, s.i)]
      [] dir.op = "lit" ->
            IF s.i > Len(buf) THEN AtEof(s)
            ELSE IF buf[s.i] # dir.ch THEN AtMismatch(s)
            ELSE [s EXCEPT !.i = s.i + 1]
      [] dir.op = "s" -> sscanfStr(buf, dir, s, SkipSpace(buf, s.i))
      [] dir.op = "int" ->
            sscanfInt(buf, dir, s, SkipSpace(buf, s.i),
                      ScanInt(buf, SkipSpace(buf, s.i), dir.radix))

\* the directives fmt[lo..hi] in order, until the scan ends; the loop over the
\* directives is split in halves, the first half before the second
RECURSIVE sscanfLoop(_, _, _, _, _)
sscanfLoop(buf, fmt, lo, hi, s) ==
    IF lo >= hi
    THEN IF lo > hi THEN s ELSE sscanfStep(buf, fmt[lo], s)
    ELSE LET first == sscanfLoop(buf, fmt, lo, (lo + hi) \div 2, s)
         IN  IF first.end = "" THEN sscanfLoop(buf, fmt, (lo + hi) \div 2 + 1, hi, first)
             ELSE first

\* What sscanf returns, and the values it assigned: the number of assignments,
\* or EOF (-1) when the input ended before the first of them.
sscanfResult(s) ==
    [matched |-> IF s.end = "eof" /\ Len(s.out) = 0 THEN -1 ELSE Len(s.out),
     out |-> s.out]

sscanf(buf, fmt) == sscanfResult(sscanfLoop(buf, fmt, 1, Len(fmt), ScanStart))

-----------------------------------------------------------------------------
(* StatsValue and the selector *)

StatsZero == [rxBytes |-> Zero64, rxPackets |-> Zero64,
              txBytes |-> Zero64, txPackets |-> Zero64]

\* enum StatsType
RX_BYTES == 0
RX_PACKETS == 1
TX_BYTES == 2
TX_PACKETS == 3

\* Variant of getStatsType whose switch has no default label: a type outside
\* the enum yields 0.
getStatsTypeNoDefault(st, type) ==
    CASE type = RX_BYTES -> st.rxBytes
      [] type = RX_PACKETS -> st.rxPackets
      [] type = TX_BYTES -> st.txBytes
      [] type = TX_PACKETS -> st.txPackets
      [] OTHER -> Zero64

\* static uint64_t getStatsType(StatsValue* stats, StatsType type)
\* type is the jint the native method was given, converted by (StatsType) type;
\* a value that is none of the four enumerators reaches the default label.
getStatsType(st, type) ==
    CASE type = RX_BYTES   -> st.rxBytes
      [] type = RX_PACKETS -> st.rxPackets
      [] type = TX_BYTES   -> st.txBytes
      [] type = TX_PACKETS -> st.txPackets
      [] OTHER             -> UNKNOWN

-----------------------------------------------------------------------------
(* The legacy parsers *)

\* a const char* argument: NULL, or a pointer to a string
NullStr == [null |-> TRUE, str |-> <<>>]
Str(s) == [null |-> FALSE, str |-> s]

\* "%31s %llu %llu %llu %llu %*u %llu %*u %*u %*u %*u %*u %llu %*u %*u %*u %*u"
IfaceFormat ==
    LET u  == DirInt(10, 64, TRUE)
        su == DirInt(10, 32, FALSE)
        w  == DirWs
    IN  <<DirS(31), w, u, w, u, w, u, w, u, w,
          su, w, u, w, su, w, su, w, su, w, su, w,
          su, w, u, w, su, w, su, w, su, w, su>>

\* "%u %31s 0x%llx %u %u %llu %llu %llu %llu"
UidFormat ==
    LET u   == DirInt(10, 64, TRUE)
        u32 == DirInt(10, 32, TRUE)
        w   == DirWs
    IN  <<u32, w, DirS(31), w, DirLit("0"), DirLit("x"), DirInt(16, 64, TRUE), w,
          u32, w, u32, w, u, w, u, w, u, w, u>>

\* stats->rxBytes += rxBytes; ... for the four counters at out[k..k+3]
Accumulate(st, out, k) ==
    [rxBytes   |-> Add64(st.rxBytes, out[k]),
     rxPackets |-> Add64(st.rxPackets, out[k + 1]),
     txBytes   |-> Add64(st.txBytes, out[k + 2]),
     txPackets |-> Add64(st.txPackets, out[k + 3])]

\* if (matched >= 5) { if (!iface || !strcmp(iface, cur_iface)) { ... += ... } }
\* with r what sscanf returned and assigned
IfaceRow(iface, r, st) ==
    IF r.matched >= 5
    THEN IF iface.null \/ iface.str = r.out[1]
         THEN Accumulate(st, r.out, 2)
         ELSE st
    ELSE st

\* if (sscanf(...) == 9) { if (uid == cur_uid && tag == 0L) { ... += ... } }
UidRow(uid, r, st) ==
    IF r.matched = 9
    THEN IF uid = r.out[4] /\ r.out[3] = Zero64
         THEN Accumulate(st, r.out, 6)
         ELSE st
    ELSE st

\* the body of parseIfaceStats' loop for one buffer
IfaceLine(iface, buffer, st) == IfaceRow(iface, sscanf(buffer, IfaceFormat), st)

\* the body of parseUidStats' loop for one buffer
UidLine(uid, buffer, st) == UidRow(uid, sscanf(buffer, UidFormat), st)

\* while (fgets(...) != NULL) { ... } of parseIfaceStats, over the buffers
\* fgets gives: the loop's state s is the index k of the next buffer and *stats
RECURSIVE IfaceLoop(_, _, _)
IfaceLoop(iface, buffers, s) ==
    IF s.k > Len(buffers) THEN s.stats
    ELSE IfaceLoop(iface, buffers,
                   [k |-> s.k + 1, stats |-> IfaceLine(iface, buffers[s.k], s.stats)])

\* the same loop of parseUidStats
RECURSIVE UidLoop(_, _, _)
UidLoop(uid, buffers, s) ==
    IF s.k > Len(buffers) THEN s.stats
    ELSE UidLoop(uid, buffers,
                 [k |-> s.k + 1, stats |-> UidLine(uid, buffers[s.k], s.stats)])

\* Variant of the parsers' library calls that returns after the loop without
\* closing the file.
ParserEventsNoClose(path, fopenOk, nBuffers, fcloseOk) ==
    IF ~fopenOk THEN <<[fn |-> "fopen", path |-> path, ok |-> FALSE]>>
    ELSE <<[fn |-> "fopen", path |-> path, ok |-> TRUE]>>
         \o [k \in 1..(nBuffers + 1) |-> [fn |-> "fgets", path |-> path, ok |-> k <= nBuffers]]

\* The library calls of one parser run, in order. fgets is called once per
\* buffer and once more to find the end of the file.
ParserEvents(path, fopenOk, nBuffers, fcloseOk) ==
    IF ~fopenOk THEN <<[fn |-> "fopen", path |-> path, ok |-> FALSE]>>
    ELSE <<[fn |-> "fopen", path |-> path, ok |-> TRUE]>>
         \o [k \in 1..(nBuffers + 1) |-> [fn |-> "fgets", path |-> path, ok |-> k <= nBuffers]]
         \o <<[fn |-> "fclose", path |-> path, ok |-> fcloseOk]>>

\* static const char* QTAGUID_IFACE_STATS / QTAGUID_UID_STATS
QTAGUID_IFACE_STATS == "/proc/net/xt_qtaguid/iface_stat_fmt"
QTAGUID_UID_STATS == "/proc/net/xt_qtaguid/stats"

\* Variant of a parser's return that does not look at what fclose answers.
ParserResultUnchecked(path, buffers, st, fcloseOk) ==
    [rc |-> 0,
     stats |-> st,
     events |-> ParserEvents(path, TRUE, Len(buffers), fcloseOk)]

\* a parser's return after fopen succeeded: the buffers fgets gave have been
\* accumulated into st; fclose decides the return value
ParserResult(path, buffers, st, fcloseOk) ==
    [rc |-> IF fcloseOk THEN 0 ELSE -1,
     stats |-> st,
     events |-> ParserEvents(path, TRUE, Len(buffers), fcloseOk)]

\* a parser's return when fopen gave NULL
ParserFailed(path, st) ==
    [rc |-> -1, stats |-> st, events |-> ParserEvents(path, FALSE, 0, FALSE)]

IfaceRead(iface, st, buffers, fcloseOk) ==
    ParserResult(QTAGUID_IFACE_STATS, buffers, IfaceLoop(iface, buffers, [k |-> 1, stats |-> st]), fcloseOk)

UidRead(uid, st, buffers, fcloseOk) ==
    ParserResult(QTAGUID_UID_STATS, buffers, UidLoop(uid, buffers, [k |-> 1, stats |-> st]), fcloseOk)

\* parseIfaceStats(iface, stats) with *stats = st on entry, over the table's
\* content file; fopenOk and fcloseOk are what fopen and fclose answer
parseIfaceStats(iface, st, file, fopenOk, fcloseOk) ==
    IF ~fopenOk THEN ParserFailed(QTAGUID_IFACE_STATS, st)
    ELSE IfaceRead(iface, st, fgetsLoop(file, 1), fcloseOk)

\* parseUidStats(uid, stats), likewise; uid is the uint32_t
parseUidStats(uid, st, file, fopenOk, fcloseOk) ==
    IF ~fopenOk THEN ParserFailed(QTAGUID_UID_STATS, st)
    ELSE UidRead(uid, st, fgetsLoop(file, 1), fcloseOk)

-----------------------------------------------------------------------------
(* The inputs the model draws from *)

\* a small number as a uint64_t
U(n) == <<n, 0, 0, 0>>

Spc == <<" ">>
Nl == <<"\n">>
Pad(n) == [i \in 1..n |-> " "]

wlan0 == <<"w", "l", "a", "n", "0">>
WLAN0 == <<"W", "L", "A", "N", "0">>
rmnet0 == <<"r", "m", "n", "e", "t", "0">>
\* 18446744073709551615, the largest uint64_t
MaxU64Text ==
    <<"1", "8", "4", "4", "6", "7", "4", "4", "0", "7",
      "3", "7", "0", "9", "5", "5", "1", "6", "1", "5">>
\* 4294967295, the uid that the jint -1 converts to
MaxU32Text == <<"4", "2", "9", "4", "9", "6", "7", "2", "9", "5">>

RECURSIVE Flatten(_)
Flatten(ss) == IF ss = <<>> THEN <<>> ELSE Head(ss) \o Flatten(Tail(ss))

\* Lines of the interface table, as the kernel formats them and otherwise
IfaceLinePool ==
    { \* wlan0 100 5 200 10 9 9
      wlan0 \o Flatten(<<Spc, <<"1", "0", "0">>, Spc, <<"5">>, Spc, <<"2", "0", "0">>,
                          Spc, <<"1", "0">>, Spc, <<"9">>, Spc, <<"9">>, Nl>>),
      \* wlan0 50 2 0 0
      wlan0 \o Flatten(<<Spc, <<"5", "0">>, Spc, <<"2">>, Spc, <<"0">>, Spc, <<"0">>, Nl>>),
      \* rmnet0 7 1 8 2
      rmnet0 \o Flatten(<<Spc, <<"7">>, Spc, <<"1">>, Spc, <<"8">>, Spc, <<"2">>, Nl>>),
      \* wlan0 x  (a malformed line)
      wlan0 \o Flatten(<<Spc, <<"x">>, Nl>>),
      \* wlan0 18446744073709551615 1 1 1
      wlan0 \o Flatten(<<Spc, MaxU64Text, Spc, <<"1">>, Spc, <<"1">>, Spc, <<"1">>, Nl>>),
      \* wlan0 1 1 1 1 <white space beyond the buffer's size> 3 3 3 3 3
      wlan0 \o Flatten(<<Spc, <<"1">>, Spc, <<"1">>, Spc, <<"1">>, Spc, <<"1">>,
                          Pad(BufferSize),
                          <<"3">>, Spc, <<"3">>, Spc, <<"3">>, Spc, <<"3">>, Spc, <<"3">>, Nl>>) }

\* idx iface 0x0 1000 0 and four counters: the start of a uid-table line
UidLineHead(idx, tag, uidText, set) ==
    Flatten(<<idx, Spc, wlan0, Spc, <<"0", "x">>, tag, Spc, uidText, Spc, set, Spc>>)

Uid1000Text == <<"1", "0", "0", "0">>

\* Lines of the uid table
UidLinePool ==
    { \* 2 wlan0 0x0 1000 0 10 1 20 2
      UidLineHead(<<"2">>, <<"0">>, Uid1000Text, <<"0">>)
        \o Flatten(<<<<"1", "0">>, Spc, <<"1">>, Spc, <<"2", "0">>, Spc, <<"2">>, Nl>>),
      \* 3 wlan0 0x5 1000 0 999 9 9 9  (a tagged line)
      UidLineHead(<<"3">>, <<"5">>, Uid1000Text, <<"0">>)
        \o Flatten(<<<<"9", "9", "9">>, Spc, <<"9">>, Spc, <<"9">>, Spc, <<"9">>, Nl>>),
      \* 4 wlan0 0x0 4294967295 0 7 1 8 2  (another uid)
      UidLineHead(<<"4">>, <<"0">>, MaxU32Text, <<"0">>)
        \o Flatten(<<<<"7">>, Spc, <<"1">>, Spc, <<"8">>, Spc, <<"2">>, Nl>>),
      \* 5 wlan0 0x0 1000 0 10 1 20  (eight tokens)
      UidLineHead(<<"5">>, <<"0">>, Uid1000Text, <<"0">>)
        \o Flatten(<<<<"1", "0">>, Spc, <<"1">>, Spc, <<"2", "0">>, Nl>>),
      \* 6 wlan0 0x0 1000 1 18446744073709551615 1 1 1
      UidLineHead(<<"6">>, <<"0">>, Uid1000Text, <<"1">>)
        \o Flatten(<<MaxU64Text, Spc, <<"1">>, Spc, <<"1">>, Spc, <<"1">>, Nl>>),
      \* 7 wlan0 0x0 1000 0 1 1 1 1 <white space beyond the buffer's size>
      \*   8 wlan0 0x0 1000 0 3 3 3 3
      UidLineHead(<<"7">>, <<"0">>, Uid1000Text, <<"0">>)
        \o Flatten(<<<<"1">>, Spc, <<"1">>, Spc, <<"1">>, Spc, <<"1">>, Pad(BufferSize)>>)
        \o UidLineHead(<<"8">>, <<"0">>, Uid1000Text, <<"0">>)
        \o Flatten(<<<<"3">>, Spc, <<"3">>, Spc, <<"3">>, Spc, <<"3">>, Nl>>) }

\* the most lines the two tables hold together
MaxLines == 2

\* the files of exactly n lines of the pool
FilesOf(pool, n) == {Flatten(ls) : ls \in [1..n -> pool]}

\* the contents of the two tables
Tables ==
    UNION {FilesOf(IfaceLinePool, i) \X FilesOf(UidLinePool, j) :
           <<i, j>> \in {ij \in (0..MaxLines) \X (0..MaxLines) : ij[1] + ij[2] <= MaxLines}}

\* the jint type arguments: the four of StatsType, and one on either side
Types == (-1)..4

\* the jstring iface arguments, as ScopedUtfChars::c_str() gives them
IfaceArgs == {NullStr, Str(wlan0), Str(WLAN0)}

\* the jint ifindex and uid arguments
IfIndexArgs == {7}
UidArgs == {1000, -1}

\* What a probe of the BPF maps answers: its return value, and *stats as it
\* leaves it (bpfGetIfaceStats, bpfGetIfIndexStats and bpfGetUidStats are
\* called with a zeroed StatsValue).
BpfAnswers ==
    { [rc |-> 0,  stats |-> [rxBytes |-> U(70), rxPackets |-> U(3),
                             txBytes |-> U(80), txPackets |-> U(4)]],
      [rc |-> -1, stats |-> StatsZero],
      [rc |-> -1, stats |-> [rxBytes |-> U(30), rxPackets |-> U(1),
                             txBytes |-> U(0), txPackets |-> U(0)]] }

-----------------------------------------------------------------------------
(* The native methods *)

NoCall == [fn |-> "none", type |-> 0, iface |-> NullStr, num |-> 0]
NoProbe == [probed |-> FALSE, rc |-> 0, stats |-> StatsZero]
NoParse == [called |-> FALSE, rc |-> 0]

Probe(fn, b) == [fn |-> fn, path |-> "", ok |-> b.rc = 0]

Init ==
    /\ \E t \in Tables : ifaceTable = t[1] /\ uidTable = t[2]
    /\ pc = "idle"
    /\ call = NoCall
    /\ bpf = NoProbe
    /\ parser = NoParse
    /\ stats = StatsZero
    /\ ret = Zero64
    /\ events = <<>>

\* the native method returns r, its StatsValue being st and its calls ev;
\* b is what the probe answered and p what the parser returned
Return(c, b, p, st, r, ev) ==
    /\ pc' = "returned"
    /\ call' = c
    /\ bpf' = b
    /\ parser' = p
    /\ stats' = st
    /\ ret' = r
    /\ events' = ev
    /\ UNCHANGED <<ifaceTable, uidTable>>

Probed(b) == [probed |-> TRUE, rc |-> b.rc, stats |-> b.stats]
Parsed(p) == [called |-> TRUE, rc |-> p.rc]

\* Variant of the cascade that runs the parser whatever the probe answered and
\* prefers the probe's record only afterwards.
ParseThenPreferProbe(c, pr, b, p) ==
    IF b.rc = 0
    THEN Return(c, Probed(b), Parsed(p), b.stats, getStatsType(b.stats, c.type),
                <<pr>> \o p.events)
    ELSE IF p.rc = 0
    THEN Return(c, Probed(b), Parsed(p), p.stats, getStatsType(p.stats, c.type),
                <<pr>> \o p.events)
    ELSE Return(c, Probed(b), Parsed(p), p.stats, UNKNOWN, <<pr>> \o p.events)

\* if (bpfGet...Stats(..., &stats) == 0) return getStatsType(&stats, type);
\* else if (parse...Stats(..., &stats) == 0) return getStatsType(&stats, type);
\* else return UNKNOWN;
\* with pr the probe, b its answer and p the parser's result
ProbeThenParse(c, pr, b, p) ==
    IF b.rc = 0
    THEN Return(c, Probed(b), NoParse, b.stats, getStatsType(b.stats, c.type), <<pr>>)
    ELSE IF p.rc = 0
    THEN Return(c, Probed(b), Parsed(p), p.stats, getStatsType(p.stats, c.type),
                <<pr>> \o p.events)
    ELSE Return(c, Probed(b), Parsed(p), p.stats, UNKNOWN, <<pr>> \o p.events)

\* a native method that falls back on a parser, for every type it may be
\* called with: fn(iface or num, type) with pr the probe, b its answer and p
\* the parser's result
FallbackCall(fn, iface, num, pr, b, p) ==
    \E type \in Types :
        ProbeThenParse([fn |-> fn, type |-> type, iface |-> iface, num |-> num], pr, b, p)

nativeGetTotalStat ==
    /\ pc = "idle"
    /\ \E b \in BpfAnswers, fopenOk \in BOOLEAN, fcloseOk \in BOOLEAN :
         FallbackCall("nativeGetTotalStat", NullStr, 0, Probe("bpfGetIfaceStats", b), b,
                      parseIfaceStats(NullStr, b.stats, ifaceTable, fopenOk, fcloseOk))

\* Variant of nativeGetIfaceStat without the check of iface8.c_str(): a null
\* name goes to both sources, where it means every interface.
nativeGetIfaceStatUnchecked ==
    /\ pc = "idle"
    /\ \E iface \in IfaceArgs, b \in BpfAnswers, fopenOk \in BOOLEAN, fcloseOk \in BOOLEAN :
         FallbackCall("nativeGetIfaceStat", iface, 0, Probe("bpfGetIfaceStats", b), b,
                      parseIfaceStats(iface, b.stats, ifaceTable, fopenOk, fcloseOk))

nativeGetIfaceStat ==
    /\ pc = "idle"
    /\ \E iface \in IfaceArgs, b \in BpfAnswers, fopenOk \in BOOLEAN, fcloseOk \in BOOLEAN :
         IF iface.null
         THEN \E type \in Types :
                  Return([fn |-> "nativeGetIfaceStat", type |-> type, iface |-> iface, num |-> 0],
                         NoProbe, NoParse, StatsZero, UNKNOWN, <<>>)
         ELSE FallbackCall("nativeGetIfaceStat", iface, 0, Probe("bpfGetIfaceStats", b), b,
                           parseIfaceStats(iface, b.stats, ifaceTable, fopenOk, fcloseOk))

\* Variant of nativeGetIfIndexStat that falls back on the interface table, as
\* nativeGetTotalStat does.
nativeGetIfIndexStatWithFallback ==
    /\ pc = "idle"
    /\ \E ifindex \in IfIndexArgs, b \in BpfAnswers, fopenOk \in BOOLEAN, fcloseOk \in BOOLEAN :
         FallbackCall("nativeGetIfIndexStat", NullStr, ifindex, Probe("bpfGetIfIndexStats", b), b,
                      parseIfaceStats(NullStr, b.stats, ifaceTable, fopenOk, fcloseOk))

nativeGetIfIndexStat ==
    /\ pc = "idle"
    /\ \E ifindex \in IfIndexArgs, type \in Types, b \in BpfAnswers :
         IF b.rc = 0
         THEN Return([fn |-> "nativeGetIfIndexStat", type |-> type, iface |-> NullStr,
                      num |-> ifindex],
                     Probed(b), NoParse, b.stats, getStatsType(b.stats, type),
                     <<Probe("bpfGetIfIndexStats", b)>>)
         ELSE Return([fn |-> "nativeGetIfIndexStat", type |-> type, iface |-> NullStr,
                      num |-> ifindex],
                     Probed(b), NoParse, b.stats, UNKNOWN, <<Probe("bpfGetIfIndexStats", b)>>)

nativeGetUidStat ==
    /\ pc = "idle"
    /\ \E uid \in UidArgs, b \in BpfAnswers, fopenOk \in BOOLEAN, fcloseOk \in BOOLEAN :
         FallbackCall("nativeGetUidStat", NullStr, uid, Probe("bpfGetUidStats", b), b,
                      parseUidStats(JintToU32(uid), b.stats, uidTable, fopenOk, fcloseOk))

\* The caller takes the returned jlong; the call's frame, and its StatsValue
\* with it, is gone.
JniReturn ==
    /\ pc = "returned"
    /\ pc' = "idle"
    /\ call' = NoCall
    /\ bpf' = NoProbe
    /\ parser' = NoParse
    /\ stats' = StatsZero
    /\ ret' = Zero64
    /\ events' = <<>>
    /\ UNCHANGED <<ifaceTable, uidTable>>

Next ==
    \/ nativeGetTotalStat
    \/ nativeGetIfaceStat
    \/ nativeGetIfIndexStat
    \/ nativeGetUidStat
    \/ JniReturn

Spec == Init /\ [][Next]_vars

-----------------------------------------------------------------------------
(* What the properties below speak of *)

Returned == pc = "returned"

\* the native methods that have a /proc parser to fall back to
FallbackFns == {"nativeGetTotalStat", "nativeGetIfaceStat", "nativeGetUidStat"}

\* the positions in events of the calls to the functions fns
CallsOf(fns) == {k \in DOMAIN events : events[k].fn \in fns}

ProbeFns == {"bpfGetIfaceStats", "bpfGetIfIndexStats", "bpfGetUidStats"}
FileFns == {"fopen", "fgets", "fclose"}

ProbeFailed == bpf.probed /\ bpf.rc # 0
ProbeSucceeded == bpf.probed /\ bpf.rc = 0
OpenedOk == \E k \in CallsOf({"fopen"}) : events[k].ok
OpenFailed == \E k \in CallsOf({"fopen"}) : ~events[k].ok
CloseFailed == \E k \in CallsOf({"fclose"}) : ~events[k].ok

\* select(record, kind) as the specification states it
Sentinel == <<65535, 65535, 65535, 65535>>
SelectSpec(record, kind) ==
    IF kind = 0 THEN record.rxBytes
    ELSE IF kind = 1 THEN record.rxPackets
    ELSE IF kind = 2 THEN record.txBytes
    ELSE IF kind = 3 THEN record.txPackets
    ELSE Sentinel

-----------------------------------------------------------------------------
(* C1 *)

\* C1: whenever the probe of nativeGetTotalStat, nativeGetIfaceStat or
\* nativeGetUidStat succeeds, the value returned is getStatsType of the record
\* the probe filled, for the type asked, and the call ran no parser: it made
\* no fopen, fgets or fclose.
C1_PrimaryHitSkipsParser ==
    (Returned /\ call.fn \in FallbackFns /\ ProbeSucceeded)
        => /\ ret = getStatsType(bpf.stats, call.type)
           /\ ~parser.called
           /\ CallsOf(FileFns) = {}

\* a uid query for TX_BYTES answered by the probe while the uid table has lines
C1_Witness ==
    /\ Returned /\ call.fn = "nativeGetUidStat" /\ ProbeSucceeded
    /\ call.type = TX_BYTES /\ ret = U(80) /\ uidTable # <<>>

-----------------------------------------------------------------------------
(* C4 *)

\* C4: when the probe of nativeGetTotalStat, nativeGetIfaceStat or
\* nativeGetUidStat fails and then fopen fails, or fclose fails after the
\* table was read, the call returns UNKNOWN (2^64 - 1) whatever the type, also
\* when the record holds counters accumulated before the close failed.
C4_ParserFailureIsUnknown ==
    (Returned /\ call.fn \in FallbackFns /\ ProbeFailed /\ (OpenFailed \/ CloseFailed))
        => ret = Sentinel

\* fclose fails after rows were accumulated, and RX_BYTES is asked for
C4_Witness ==
    /\ Returned /\ call.fn = "nativeGetTotalStat" /\ ProbeFailed /\ CloseFailed
    /\ call.type = RX_BYTES /\ stats.rxBytes = U(150)

-----------------------------------------------------------------------------
(* C5 *)

\* C5: nativeGetIfIndexStat has no fallback: it never runs a parser or touches
\* a table; it returns UNKNOWN when its probe fails and getStatsType of the
\* probe's record when it succeeds.
C5_IfIndexHasNoFallback ==
    (Returned /\ call.fn = "nativeGetIfIndexStat")
        => /\ ~parser.called
           /\ CallsOf(FileFns) = {}
           /\ bpf.probed
           /\ ProbeFailed => ret = Sentinel
           /\ ProbeSucceeded => ret = getStatsType(bpf.stats, call.type)

\* index 7, TX_PACKETS, the probe fails, and the interface table has lines
C5_Witness ==
    /\ Returned /\ call.fn = "nativeGetIfIndexStat" /\ call.num = 7
    /\ call.type = TX_PACKETS /\ ProbeFailed /\ ifaceTable # <<>>

-----------------------------------------------------------------------------
(* C6 *)

\* C6: getStatsType returns rxBytes, rxPackets, txBytes, txPackets for the
\* types 0, 1, 2, 3 and UNKNOWN for every other type, and leaves the record as
\* it was; so every native method asked for a type outside 0..3 returns
\* UNKNOWN even when the probe or the parser answered.
C6_SelectIsTotal ==
    /\ \A b \in BpfAnswers, kind \in Types :
           getStatsType(b.stats, kind) = SelectSpec(b.stats, kind)
    /\ (Returned /\ (ProbeSucceeded \/ (parser.called /\ parser.rc = 0)))
           => ret = SelectSpec(stats, call.type)
    /\ (Returned /\ ProbeSucceeded) => stats = bpf.stats
    /\ (Returned /\ call.type \notin 0..3) => ret = Sentinel

\* a type outside the enum is asked of a probe that answered
C6_Witness ==
    /\ Returned /\ call.fn = "nativeGetIfIndexStat" /\ ProbeSucceeded
    /\ call.type = 4 /\ stats.rxBytes = U(70)

-----------------------------------------------------------------------------
(* C8 *)

\* C8: nativeGetIfaceStat called with a name whose c_str() is null returns
\* UNKNOWN having made no call at all: no probe, no parser.
C8_NullNameShortCircuits ==
    (Returned /\ call.fn = "nativeGetIfaceStat" /\ call.iface.null)
        => /\ ret = Sentinel
           /\ events = <<>>
           /\ ~bpf.probed
           /\ ~parser.called

\* a null name, RX_BYTES, while the interface table has lines
C8_Witness ==
    /\ Returned /\ call.fn = "nativeGetIfaceStat" /\ call.iface.null
    /\ call.type = RX_BYTES /\ ifaceTable # <<>>

-----------------------------------------------------------------------------
(* C10 *)

PrimaryHit == ProbeSucceeded /\ ~parser.called /\ ret = getStatsType(bpf.stats, call.type)
FallbackHit == ProbeFailed /\ parser.called /\ parser.rc = 0
                   /\ ret = getStatsType(stats, call.type)
Unknown == ret = Sentinel

\* C10: a call makes at most one probe and at most one fopen, the probe first;
\* fgets and fclose happen only on a file fopen gave; a file that was opened
\* is closed exactly once, by the call's last library call, after every fgets;
\* and the call returns as a primary hit, a fallback hit or UNKNOWN.
C10_OneProbeOneCycle ==
    Returned
        => /\ Cardinality(CallsOf(ProbeFns)) <= 1
           /\ Cardinality(CallsOf({"fopen"})) <= 1
           /\ \A i \in CallsOf(ProbeFns), j \in CallsOf(FileFns) : i < j
           /\ \A i \in CallsOf({"fopen"}), j \in CallsOf({"fgets", "fclose"}) : i < j
           /\ OpenedOk => /\ Cardinality(CallsOf({"fclose"})) = 1
                          /\ CallsOf({"fclose"}) = {Len(events)}
           /\ ~OpenedOk => CallsOf({"fgets", "fclose"}) = {}
           /\ PrimaryHit \/ FallbackHit \/ Unknown

\* a fallback that read two buffers: probe, fopen, three fgets, fclose
C10_Witness ==
    /\ Returned /\ ProbeFailed /\ OpenedOk /\ Len(events) = 6
    /\ Cardinality(CallsOf({"fgets"})) = 3

-----------------------------------------------------------------------------
(* Tables as the specification reads them: physical lines and exact sums *)

\* the end of the physical line of file that starts at pos: its newline, or
\* the end of the file
LineEnd(file, pos, nl) == IF nl = {} THEN Len(file) ELSE CHOOSE j \in nl : \A k \in nl : j <= k

\* the physical lines of a table, each with its newline
RECURSIVE LinesOf(_, _)
LinesOf(file, pos) ==
    IF pos > Len(file) THEN <<>>
    ELSE <<SubSeq(file, pos, LineEnd(file, pos, {j \in pos..Len(file) : file[j] = "\n"}))>>
         \o LinesOf(file, LineEnd(file, pos, {j \in pos..Len(file) : file[j] = "\n"}) + 1)

\* a line cut to what one read into char buffer[384] holds
Truncated(line) ==
    SubSeq(line, 1, IF Len(line) < BufferSize - 1 THEN Len(line) ELSE BufferSize - 1)

TruncatedLinesOf(file) == [k \in DOMAIN LinesOf(file, 1) |-> Truncated(LinesOf(file, 1)[k])]

NoCounters == <<Zero64, Zero64, Zero64, Zero64>>

\* the four counters an interface-table line contributes to a query for iface,
\* r being the line's tokens: the line is well-formed and matches, or nothing
IfaceCounters(iface, r) ==
    IF r.matched >= 5 /\ (iface.null \/ r.out[1] = iface.str)
    THEN <<r.out[2], r.out[3], r.out[4], r.out[5]>>
    ELSE NoCounters

\* the four counters a uid-table line contributes to a query for uid
UidCounters(uid, r) ==
    IF r.matched = 9 /\ r.out[4] = uid /\ r.out[3] = Zero64
    THEN <<r.out[6], r.out[7], r.out[8], r.out[9]>>
    ELSE NoCounters

\* numbers beyond 64 bits: a fifth limb takes the carries, so sums are exact
Wide(v) == <<v[1], v[2], v[3], v[4], 0>>
AddWide(w, v) ==
    LET s1 == w[1] + v[1]
        s2 == w[2] + v[2] + (s1 \div LimbBase)
        s3 == w[3] + v[3] + (s2 \div LimbBase)
        s4 == w[4] + v[4] + (s3 \div LimbBase)
    IN  <<s1 % LimbBase, s2 % LimbBase, s3 % LimbBase, s4 % LimbBase,
          w[5] + (s4 \div LimbBase)>>

\* the exact sum of column c of rows
RECURSIVE ColumnSum(_, _, _)
ColumnSum(rows, c, k) ==
    IF k > Len(rows) THEN Wide(Zero64) ELSE AddWide(ColumnSum(rows, c, k + 1), rows[k][c])

IfaceRows(iface, lines) ==
    [k \in DOMAIN lines |-> IfaceCounters(iface, sscanf(lines[k], IfaceFormat))]
UidRows(uid, lines) ==
    [k \in DOMAIN lines |-> UidCounters(uid, sscanf(lines[k], UidFormat))]

ExactSums(rows) ==
    [rxBytes |-> ColumnSum(rows, 1, 1), rxPackets |-> ColumnSum(rows, 2, 1),
     txBytes |-> ColumnSum(rows, 3, 1), txPackets |-> ColumnSum(rows, 4, 1)]
WideStats(st) ==
    [rxBytes |-> Wide(st.rxBytes), rxPackets |-> Wide(st.rxPackets),
     txBytes |-> Wide(st.txBytes), txPackets |-> Wide(st.txPackets)]

IfaceFns == {"nativeGetTotalStat", "nativeGetIfaceStat"}

-----------------------------------------------------------------------------
(* C2 *)

\* C2: parseIfaceStats started on an all-zero record, over a table that opens
\* and closes, returns 0 and leaves in each counter the exact sum of that
\* column over the table's lines that are well-formed and match the name.
C2_IfaceExactSums ==
    (Returned /\ call.fn \in IfaceFns /\ parser.called /\ bpf.stats = StatsZero
              /\ OpenedOk /\ ~CloseFailed)
        => /\ parser.rc = 0
           /\ WideStats(stats) = ExactSums(IfaceRows(call.iface, LinesOf(ifaceTable, 1)))

-----------------------------------------------------------------------------
(* C3 *)

\* C3: with the probe failed, nativeGetUidStat(uid, type) is the sum of the
\* type's column over the uid table's lines whose nine tokens parse, whose
\* uid is the one asked for and whose tag is zero (stated for the calls whose
\* parser succeeded and whose type is one of the four).
C3_UidExactSum ==
    (Returned /\ call.fn = "nativeGetUidStat" /\ ProbeFailed
              /\ parser.called /\ parser.rc = 0 /\ call.type \in 0..3)
        => Wide(ret) = ColumnSum(UidRows(JintToU32(call.num), LinesOf(uidTable, 1)),
                                 call.type + 1, 1)

-----------------------------------------------------------------------------
(* C7 *)

\* what the call's parser gives when it is started on an all-zero record
RecordFromZero ==
    IF call.fn = "nativeGetUidStat"
    THEN parseUidStats(JintToU32(call.num), StatsZero, uidTable, TRUE, TRUE).stats
    ELSE parseIfaceStats(call.iface, StatsZero, ifaceTable, TRUE, TRUE).stats

\* C7: when the probe fails and the parser then succeeds, the value returned
\* is the one the matching rows of the table alone give: the record the
\* parser is started on is all-zero, whatever the failed probe left in it.
C7_FallbackStartsFromZero ==
    (Returned /\ call.fn \in FallbackFns /\ ProbeFailed /\ parser.called /\ parser.rc = 0)
        => ret = getStatsType(RecordFromZero, call.type)

-----------------------------------------------------------------------------
(* C9 *)

\* what the call's parser gives when every physical line of the table is read
\* once, cut to the buffer's size, the rest of the line being dropped
RecordOfTruncatedLines ==
    IF call.fn = "nativeGetUidStat"
    THEN UidLoop(JintToU32(call.num), TruncatedLinesOf(uidTable), [k |-> 1, stats |-> bpf.stats])
    ELSE IfaceLoop(call.iface, TruncatedLinesOf(ifaceTable), [k |-> 1, stats |-> bpf.stats])

\* C9: a line longer than the buffer is truncated and its rest discarded,
\* never tokenized as a row of its own: the record a parser leaves is the one
\* that reading each physical line once, truncated, gives.
C9_LongLinesAreTruncated ==
    (Returned /\ call.fn \in FallbackFns /\ parser.called /\ OpenedOk)
        => stats = RecordOfTruncatedLines

-----------------------------------------------------------------------------
(* What the parsers do give: C2 and C3 away from over-long lines, from a      *)
(* record the probe left other than zero and from sums beyond 64 bits         *)

\* the low 64 bits of an exact sum
Low64(w) == <<w[1], w[2], w[3], w[4]>>

\* every physical line of the file fits one read into char buffer[384]
LinesFit(file) == \A k \in DOMAIN LinesOf(file, 1) : Len(LinesOf(file, 1)[k]) <= BufferSize - 1

\* parseIfaceStats, started on an all-zero record over a table whose lines fit
\* the buffer and that opens and closes, returns 0 and leaves in each counter
\* the sum, modulo 2^64, of that column over the well-formed matching lines.
IfaceSumsOfFittingLines ==
    (Returned /\ call.fn \in IfaceFns /\ parser.called /\ bpf.stats = StatsZero
              /\ OpenedOk /\ ~CloseFailed /\ LinesFit(ifaceTable))
        => /\ parser.rc = 0
           /\ stats.rxBytes = Low64(ColumnSum(IfaceRows(call.iface, LinesOf(ifaceTable, 1)), 1, 1))
           /\ stats.rxPackets = Low64(ColumnSum(IfaceRows(call.iface, LinesOf(ifaceTable, 1)), 2, 1))
           /\ stats.txBytes = Low64(ColumnSum(IfaceRows(call.iface, LinesOf(ifaceTable, 1)), 3, 1))
           /\ stats.txPackets = Low64(ColumnSum(IfaceRows(call.iface, LinesOf(ifaceTable, 1)), 4, 1))

\* nativeGetUidStat, its probe having failed and left the record all-zero,
\* over a uid table whose lines fit the buffer, returns for a type of the enum
\* the sum, modulo 2^64, of the type's column over the lines whose nine tokens
\* parse, whose uid is the one asked for and whose tag is zero.
UidSumOfFittingLines ==
    (Returned /\ call.fn = "nativeGetUidStat" /\ ProbeFailed /\ bpf.stats = StatsZero
              /\ parser.called /\ parser.rc = 0 /\ call.type \in 0..3 /\ LinesFit(uidTable))
        => ret = Low64(ColumnSum(UidRows(JintToU32(call.num), LinesOf(uidTable, 1)),
                                 call.type + 1, 1))

====
